---------------------------- MODULE Spec2Model ----------------------------
(***************************************************************************)
(* A model of etl::ibitset (src/ibitset.h): a fixed-capacity bit array     *)
(* packed into uint8_t storage elements that the owning container          *)
(* supplies.                                                                *)
(*                                                                          *)
(* The storage is a function from element index (0 .. SIZE-1) to a value   *)
(* in 0 .. 255.  Every member function of ibitset is an operator over the  *)
(* storage, and every public call is an action that applies the operator   *)
(* to the variable pdata and records the call (op, and with detail also   *)
(* arg, val, text, ret and the storage it was applied to, old).            *)
(***************************************************************************)
EXTENDS Integers, Sequences, FiniteSets, TLC

VARIABLES
  NBITS,     \* const size_t NBITS: the number of bits
  SIZE,      \* const size_t SIZE: the number of storage elements
  TOP_MASK,  \* element_t TOP_MASK, computed by the constructor
  pdata,     \* the storage of this bitset
  other,     \* the storage of a second bitset of the same NBITS
  old,       \* pdata before the last call
  op,        \* the last call
  arg,       \* its size_t argument (position, shift), 0 when it has none
  val,       \* its bool argument (value, state), FALSE when it has none
  text,      \* its string argument, <<>> when it has none
  ret,       \* its size_t or bool result, 0 when it returns *this
  fault,     \* TRUE once a call has read or written outside pdata[0 .. SIZE-1]
  detail     \* whether a behaviour records arg, val and old of each call

vars ==
  <<NBITS, SIZE, TOP_MASK, pdata, other, old, op, arg, val, text, ret, fault, detail>>

---------------------------------------------------------------------------
(* Bounds of the model. *)

\* Main specification: bit counts 1 .. MaxBits.
MaxBits == 9

\* flip(position) is tried on positions up to SIZE * 8 + ExtraPos - 1.
ExtraPos == 2

\* operator<<= is tried on shifts from NBITS to NBITS + ExtraShift.
ExtraShift == 2

\* set(text) is tried on texts over Chars of length 0 .. MaxTextLen.
MaxTextLen == 10

\* The bitwise combinations are tried on bit counts 1 .. MaxPairBits.
MaxPairBits == 10

\* The constructor's top mask is computed for bit counts 1 .. MaxMaskBits.
MaxMaskBits == 32

\* size_t is modelled SizeBits wide (TLC's integers are 32-bit); every position
\* and count of the model is far below 2^SizeBits, so an unsigned wrap-around
\* lands outside the storage as it does with a 64-bit size_t.
SizeBits == 16

---------------------------------------------------------------------------
(* Program constants and fixed-width arithmetic. *)

ALL_SET == 255

ALL_CLEAR == 0

BITS_PER_ELEMENT == 8

\* etl::log2<BITS_PER_ELEMENT>::value
LOG2_BITS_PER_ELEMENT == 3

SizeMod == 2 ^ SizeBits

\* Unsigned size_t arithmetic wraps.
WrapSize(x) == x % SizeMod

npos == SizeMod - 1

\* Conversion of an int to element_t (uint8_t) keeps the low 8 bits.
Element(x) == x % (2 ^ BITS_PER_ELEMENT)

\* Bit k of a non-negative value.
BitOf(v, k) == (v \div (2 ^ k)) % 2

AndBit(x, y) == x * y

OrBit(x, y) == IF x + y > 0 THEN 1 ELSE 0

XorBit(x, y) == (x + y) % 2

RECURSIVE AndOf(_, _)
\* a & b, bit by bit from the lowest.
AndOf(a, b) ==
  IF a = 0 /\ b = 0 THEN 0
  ELSE AndBit(a % 2, b % 2) + 2 * AndOf(a \div 2, b \div 2)

RECURSIVE OrOf(_, _)
\* a | b, bit by bit from the lowest.
OrOf(a, b) ==
  IF a = 0 /\ b = 0 THEN 0
  ELSE OrBit(a % 2, b % 2) + 2 * OrOf(a \div 2, b \div 2)

RECURSIVE XorOf(_, _)
\* a ^ b, bit by bit from the lowest.
XorOf(a, b) ==
  IF a = 0 /\ b = 0 THEN 0
  ELSE XorBit(a % 2, b % 2) + 2 * XorOf(a \div 2, b \div 2)

ElementValues == 0 .. 2 ^ BITS_PER_ELEMENT - 1

\* a & b, a | b, a ^ b on element values, tabulated once.
AndTable == [a \in ElementValues |-> [b \in ElementValues |-> AndOf(a, b)]]

OrTable == [a \in ElementValues |-> [b \in ElementValues |-> OrOf(a, b)]]

XorTable == [a \in ElementValues |-> [b \in ElementValues |-> XorOf(a, b)]]

BitAnd(a, b) == AndTable[a][b]

BitOr(a, b) == OrTable[a][b]

BitXor(a, b) == XorTable[a][b]

\* ~a of a promoted int, converted back to element_t.
BitNot(a) == Element(-a - 1)

\* a << s and a >> s of a promoted int (s below the width of int).
ShiftLeft(a, s) == a * (2 ^ s)

ShiftRight(a, s) == a \div (2 ^ s)

\* position >> log2<BITS_PER_ELEMENT>::value
IndexOf(position) == ShiftRight(position, LOG2_BITS_PER_ELEMENT)

\* position & (BITS_PER_ELEMENT - 1)
OffsetOf(position) == position % BITS_PER_ELEMENT

\* etl::count_bits (binary.h): the number of set bits of an element.
CountTable ==
  [v \in ElementValues |-> Cardinality({k \in 0 .. BITS_PER_ELEMENT - 1 : BitOf(v, k) = 1})]

count_bits(v) == CountTable[v]

---------------------------------------------------------------------------
(* Construction. *)

\* The owning container sizes the storage: SIZE = ceil(NBITS / 8).
ElementCount(nbits) == (nbits + BITS_PER_ELEMENT - 1) \div BITS_PER_ELEMENT

\* The top mask without the case of no spare bits.
TopMask_unguarded(nbits, size) ==
  LET allocated_bits == size * BITS_PER_ELEMENT
      top_mask_shift == WrapSize(BITS_PER_ELEMENT - WrapSize(allocated_bits - nbits))
                          % BITS_PER_ELEMENT
  IN  Element(-ShiftLeft(ALL_SET, top_mask_shift) - 1)

\* ibitset::ibitset: the top mask.
TopMask(nbits, size) ==
  LET allocated_bits == size * BITS_PER_ELEMENT
      top_mask_shift == WrapSize(BITS_PER_ELEMENT - WrapSize(allocated_bits - nbits))
                          % BITS_PER_ELEMENT
  IN  IF top_mask_shift = 0 THEN ALL_SET
      ELSE Element(-ShiftLeft(ALL_SET, top_mask_shift) - 1)

\* Is element index i inside the storage?
InStorage(i) == i < SIZE

Elements == 0 .. SIZE - 1

---------------------------------------------------------------------------
(* Queries: operators over a storage d. *)

\* The element index a position-taking member uses.
index_of(position) == IF SIZE = 1 THEN 0 ELSE IndexOf(position)

\* The mask without the reduction of the position to its element.
mask_of_unreduced(position) == Element(ShiftLeft(1, position))

\* The mask a position-taking member uses.
mask_of(position) ==
  IF SIZE = 1 THEN Element(ShiftLeft(1, position))
  ELSE Element(ShiftLeft(1, OffsetOf(position)))

RECURSIVE count_from(_, _)
count_from(d, i) ==
  IF i >= SIZE THEN 0 ELSE count_bits(d[i]) + count_from(d, i + 1)

count(d) == count_from(d, 0)

test(d, position) == BitAnd(d[index_of(position)], mask_of(position)) # 0

all(d) ==
  /\ \A i \in 0 .. SIZE - 2 : d[i] = ALL_SET
  /\ d[SIZE - 1] = BitAnd(ALL_SET, TOP_MASK)

none(d) == \A i \in Elements : d[i] = 0

any(d) == ~none(d)

---------------------------------------------------------------------------
(* Mutators: operators from a storage d to the storage after the call. *)

set(d) ==
  LET filled == [i \in Elements |-> ALL_SET]
  IN  [filled EXCEPT ![SIZE - 1] = BitAnd(filled[SIZE - 1], TOP_MASK)]

set_position(d, position, value) ==
  LET index == index_of(position)
      bit   == mask_of(position)
  IN  IF value THEN [d EXCEPT ![index] = BitOr(d[index], bit)]
      ELSE [d EXCEPT ![index] = BitAnd(d[index], BitNot(bit))]

reset(d) == [i \in Elements |-> ALL_CLEAR]

reset_position(d, position) ==
  LET index == index_of(position)
      bit   == mask_of(position)
  IN  [d EXCEPT ![index] = BitAnd(d[index], BitNot(bit))]

flip(d) ==
  LET inverted == [i \in Elements |-> BitNot(d[i])]
  IN  [inverted EXCEPT ![SIZE - 1] = BitAnd(inverted[SIZE - 1], TOP_MASK)]

\* flip(position) that sets the bit instead of toggling it.
flip_position_or(d, position) ==
  IF position < NBITS
  THEN LET index == index_of(position)
           bit   == mask_of(position)
       IN  IF InStorage(index)
           THEN [d |-> [d EXCEPT ![index] = BitOr(d[index], bit)], fault |-> FALSE]
           ELSE [d |-> d, fault |-> TRUE]
  ELSE [d |-> d, fault |-> FALSE]

\* flip(position) without the check of the position against NBITS.
flip_position_unchecked(d, position) ==
  LET index == index_of(position)
      bit   == mask_of(position)
  IN  IF InStorage(index)
      THEN [d |-> [d EXCEPT ![index] = BitXor(d[index], bit)], fault |-> FALSE]
      ELSE [d |-> d, fault |-> TRUE]

\* flip(position): the storage after the call, and whether the call touched an
\* element outside pdata[0 .. SIZE-1].
flip_position(d, position) ==
  IF position < NBITS
  THEN LET index == index_of(position)
           bit   == mask_of(position)
       IN  IF InStorage(index)
           THEN [d |-> [d EXCEPT ![index] = BitXor(d[index], bit)], fault |-> FALSE]
           ELSE [d |-> d, fault |-> TRUE]
  ELSE [d |-> d, fault |-> FALSE]

\* operator&= that stops one element short.
and_assign_short(d, o) ==
  [i \in Elements |-> IF i < SIZE - 1 THEN BitAnd(d[i], o[i]) ELSE d[i]]

and_assign(d, o) == [i \in Elements |-> BitAnd(d[i], o[i])]

or_assign(d, o) == [i \in Elements |-> BitOr(d[i], o[i])]

xor_assign(d, o) == [i \in Elements |-> BitXor(d[i], o[i])]

---------------------------------------------------------------------------
(* set from a string: text is a sequence of one-character strings. *)

Min(a, b) == IF a < b THEN a ELSE b

RECURSIVE set_text_from(_, _, _, _)
\* The while loop: i is the count of bits still to assign, j the index (from 1)
\* of the character *text points at.
set_text_from(d, t, i, j) ==
  IF i > 0 THEN set_text_from(set_position(d, i - 1, t[j] = "1"), t, i - 1, j + 1)
  ELSE d

\* set(text) that reads the last min(NBITS, length) characters of the text.
set_text_from_right(d, t) ==
  LET m == Min(NBITS, Len(t))
  IN  set_text_from(reset(d), t, m, Len(t) - m + 1)

set_text(d, t) == set_text_from(reset(d), t, Min(NBITS, Len(t)), 1)

---------------------------------------------------------------------------
(* find_first, find_next. *)

RECURSIVE find_in_element(_, _, _, _, _)
\* The inner while loop over the bits of one element: whether a bit in the
\* state was found, and the position reached.
find_in_element(value, state, mask, position, bit) ==
  IF bit < BITS_PER_ELEMENT /\ position < NBITS
  THEN IF (BitAnd(value, mask) # 0) = state
       THEN [found |-> TRUE, position |-> position]
       ELSE find_in_element(value, state, Element(ShiftLeft(mask, 1)),
                            WrapSize(position + 1), bit + 1)
  ELSE [found |-> FALSE, position |-> position]

\* How far the position moves over an element that needs no checking.
skip_element(position) == WrapSize(position + BITS_PER_ELEMENT)

RECURSIVE find_in_elements(_, _, _, _, _, _)
\* The outer while loop over the elements.
find_in_elements(d, state, index, bit, mask, position) ==
  IF index < SIZE
  THEN LET value == d[index]
       IN  IF (state /\ value # ALL_CLEAR) \/ (~state /\ value # ALL_SET)
           THEN LET r == find_in_element(value, state, mask, position, bit)
                IN  IF r.found THEN r.position
                    ELSE find_in_elements(d, state, index + 1, 0, 1, r.position)
           ELSE find_in_elements(d, state, index + 1, 0, 1, skip_element(position))
  ELSE npos

find_next(d, state, position) ==
  LET index == IF SIZE = 1 THEN 0 ELSE IndexOf(position)
      bit   == IF SIZE = 1 THEN position ELSE OffsetOf(position)
      mask  == Element(ShiftLeft(1, bit))
  IN  find_in_elements(d, state, index, bit, mask, position)

find_first(d, state) == find_next(d, state, 0)

---------------------------------------------------------------------------
(* operator<<= and operator>>=.  The result is the storage after the call  *)
(* and whether the call touched an element outside pdata[0 .. SIZE-1]; the *)
(* call is followed up to its first such access, where its behaviour       *)
(* becomes undefined.  In the single-element path the shift count of the   *)
(* model stays below the width of int.                                     *)

RECURSIVE shift_copy(_, _, _, _, _, _)
\* for (i = 0; i < n; ++i) set(destination, test(source)), both moving by step.
shift_copy(d, source, destination, step, i, n) ==
  IF i >= n THEN [d |-> d, destination |-> destination, fault |-> FALSE]
  ELSE IF ~InStorage(index_of(source)) \/ ~InStorage(index_of(destination))
  THEN [d |-> d, destination |-> destination, fault |-> TRUE]
  ELSE shift_copy(set_position(d, destination, test(d, source)),
                  WrapSize(source + step), WrapSize(destination + step),
                  step, i + 1, n)

RECURSIVE shift_clear(_, _, _, _, _)
\* for (i = 0; i < n; ++i) reset(destination), moving by step.
shift_clear(d, destination, step, i, n) ==
  IF i >= n THEN [d |-> d, fault |-> FALSE]
  ELSE IF ~InStorage(index_of(destination)) THEN [d |-> d, fault |-> TRUE]
  ELSE shift_clear(reset_position(d, destination), WrapSize(destination + step),
                   step, i + 1, n)

\* The two loops of the multi-element path.
shift_bits(d, source, destination, step, shift) ==
  LET copied == shift_copy(d, source, destination, step, 0, WrapSize(NBITS - shift))
  IN  IF copied.fault THEN [d |-> copied.d, fault |-> TRUE]
      ELSE shift_clear(copied.d, copied.destination, step, 0, shift)

\* The single-element path of operator<<=.
shift_left_element(v, shift) == Element(ShiftLeft(v, shift))

shift_left_assign(d, shift) ==
  IF SIZE = 1
  THEN [d |-> [d EXCEPT ![0] = shift_left_element(d[0], shift)], fault |-> FALSE]
  ELSE shift_bits(d, WrapSize(NBITS - shift - 1), WrapSize(NBITS - 1), -1, shift)

shift_right_assign(d, shift) ==
  IF SIZE = 1
  THEN [d |-> [d EXCEPT ![0] = ShiftRight(d[0], shift)], fault |-> FALSE]
  ELSE shift_bits(d, shift, 0, 1, shift)


---------------------------------------------------------------------------
(* The states a bitset can be in, and the inputs the calls are tried on. *)

\* The padding bits of the last element are clear.
Padded(d) == BitAnd(d[SIZE - 1], BitNot(TOP_MASK)) = 0

\* Every storage content that keeps the padding bits clear: each is reached from
\* reset() by set(position) calls.
PaddedStorages == {d \in [Elements -> ElementValues] : Padded(d)}

\* Every storage content the calls of the main specification reach: a
\* single-element bitset of two or more bits also reaches the contents with
\* padding bits set, through operator<<=.
ReachableStorages ==
  IF SIZE = 1 /\ NBITS > 1 THEN [Elements -> ElementValues] ELSE PaddedStorages

Positions == 0 .. NBITS - 1

\* flip(position) accepts any position: those of the bitset, those of the padding
\* of the last element, and some beyond the storage.
FlipPositions == 0 .. SIZE * BITS_PER_ELEMENT + ExtraPos - 1

RECURSIVE set_positions(_, _)
\* set(position) for every position of a set.
set_positions(d, ps) ==
  IF ps = {} THEN d
  ELSE LET p == CHOOSE q \in ps : TRUE
       IN  set_positions(set_position(d, p, TRUE), ps \ {p})

\* The second bitset of the main specification: the even positions set.
EvenBits == set_positions(reset(<<>>), {p \in Positions : p % 2 = 0})

Chars == {"0", "1", "x"}

\* The values the elements below the last take in the pairs of bitsets the bitwise
\* combinations are tried on; the last element takes every padded value.
SampleElements == {ALL_CLEAR, ALL_SET, 85, 202}

PairStorages ==
  {d \in PaddedStorages : \A i \in 0 .. SIZE - 2 : d[i] \in SampleElements}

\* The texts a bitset is set from: every text over Chars up to four characters
\* longer than the bitset, and no longer than MaxTextLen.
Texts == UNION {[1 .. n -> Chars] : n \in 0 .. Min(MaxTextLen, NBITS + 4)}

\* The bit counts set(text) is tried on: a single-element and a multi-element
\* bitset, each with shorter, equal and longer texts.
TextBitCounts == {MaxTextLen - 7, MaxTextLen - 1}

---------------------------------------------------------------------------
(* The calls as actions. *)

\* A call that ran to its end without touching anything outside the storage.
Done(d) == [d |-> d, fault |-> FALSE]

\* The record of a call.
Record(o, a, v) ==
  /\ op' = o
  /\ IF detail THEN arg' = a /\ val' = v /\ old' = pdata
     ELSE UNCHANGED <<arg, val, old>>

\* A call on pdata that returns *this: r is the outcome of its operator.
Mutate(o, a, v, r) ==
  /\ ~fault
  /\ pdata' = r.d
  /\ fault' = r.fault
  /\ Record(o, a, v)
  /\ UNCHANGED <<NBITS, SIZE, TOP_MASK, other, text, ret, detail>>

\* A const call on pdata that returns r.
Query(o, a, v, r) ==
  /\ ~fault
  /\ ret' = r
  /\ Record(o, a, v)
  /\ UNCHANGED <<NBITS, SIZE, TOP_MASK, pdata, other, text, fault, detail>>

\* ibitset::ibitset over the storage of the owning container.
Construct(nbits) ==
  /\ NBITS = nbits
  /\ SIZE = ElementCount(nbits)
  /\ TOP_MASK = TopMask(nbits, ElementCount(nbits))
  /\ op = "construct" /\ arg = 0 /\ val = FALSE /\ ret = 0
  /\ fault = FALSE

\* The owning container constructs the bitset over its storage and resets it.
Init ==
  /\ \E nbits \in 1 .. MaxBits : Construct(nbits)
  /\ pdata = reset(<<>>)
  /\ old = pdata
  /\ other = EvenBits
  /\ text = <<>>
  /\ detail = FALSE

\* A bitset in any state it can reach, about to receive one recorded call.
StepInit ==
  /\ \E nbits \in 1 .. MaxBits : Construct(nbits)
  /\ pdata \in ReachableStorages
  /\ old = pdata
  /\ other = reset(<<>>)
  /\ text = <<>>
  /\ detail = TRUE

\* A freshly set() bitset and a text to set it from.
TextInit ==
  /\ \E nbits \in TextBitCounts : Construct(nbits)
  /\ pdata = set(<<>>)
  /\ old = pdata
  /\ other = reset(<<>>)
  /\ text \in Texts
  /\ detail = FALSE

\* Two bitsets of the same bit count, each in a state that keeps its padding clear.
PairInit ==
  /\ \E nbits \in 1 .. MaxPairBits : Construct(nbits)
  /\ pdata \in PairStorages
  /\ old = pdata
  /\ other \in PairStorages
  /\ text = <<>>
  /\ detail = TRUE

Set == Mutate("set", 0, FALSE, Done(set(pdata)))

SetPosition ==
  \E position \in Positions, value \in BOOLEAN :
    Mutate("set_position", position, value, Done(set_position(pdata, position, value)))

SetText == Mutate("set_text", 0, FALSE, Done(set_text(pdata, text)))

Reset == Mutate("reset", 0, FALSE, Done(reset(pdata)))

ResetPosition ==
  \E position \in Positions :
    Mutate("reset_position", position, FALSE, Done(reset_position(pdata, position)))

Flip == Mutate("flip", 0, FALSE, Done(flip(pdata)))

FlipPosition ==
  \E position \in FlipPositions :
    Mutate("flip_position", position, FALSE, flip_position(pdata, position))

FindFirst ==
  \E state \in BOOLEAN : Query("find_first", 0, state, find_first(pdata, state))

FindNext ==
  \E state \in BOOLEAN, position \in Positions :
    Query("find_next", position, state, find_next(pdata, state, position))

AndAssign == Mutate("and", 0, FALSE, Done(and_assign(pdata, other)))

OrAssign == Mutate("or", 0, FALSE, Done(or_assign(pdata, other)))

XorAssign == Mutate("xor", 0, FALSE, Done(xor_assign(pdata, other)))

\* operator<<= and operator>>= with a shift below the bit count.
ShiftLeftAssign ==
  \E shift \in 0 .. NBITS - 1 :
    Mutate("shift_left", shift, FALSE, shift_left_assign(pdata, shift))

ShiftRightAssign ==
  \E shift \in 0 .. NBITS - 1 :
    Mutate("shift_right", shift, FALSE, shift_right_assign(pdata, shift))

\* operator<<= with a shift of the bit count or more.
ShiftLeftPastWidth ==
  \E shift \in NBITS .. NBITS + ExtraShift :
    Mutate("shift_left", shift, FALSE, shift_left_assign(pdata, shift))

---------------------------------------------------------------------------
(* Specifications. *)

\* Any sequence of the public mutators on valid positions and shifts.
Next ==
  \/ Set
  \/ SetPosition
  \/ Reset
  \/ ResetPosition
  \/ Flip
  \/ FlipPosition
  \/ ShiftLeftAssign
  \/ ShiftRightAssign
  \/ AndAssign
  \/ OrAssign
  \/ XorAssign

Spec == Init /\ [][Next]_vars

\* Single-bit writes, recorded.
WriteNext == SetPosition \/ ResetPosition

WriteSpec == StepInit /\ [][WriteNext]_vars

\* Flips, recorded.
FlipNext == Flip \/ FlipPosition

FlipSpec == StepInit /\ [][FlipNext]_vars

\* Left shifts by the bit count or more, recorded.
ShiftSpec == StepInit /\ [][ShiftLeftPastWidth]_vars

\* Searches, recorded.
FindNextStep == FindFirst \/ FindNext

FindSpec == StepInit /\ [][FindNextStep]_vars

\* set(text), recorded.
TextSpec == TextInit /\ [][SetText]_vars

\* The bitwise combinations of two bitsets, recorded.
PairNext == AndAssign \/ OrAssign \/ XorAssign

PairSpec == PairInit /\ [][PairNext]_vars

\* A constructed and reset bitset whose calls are recorded.
ShiftStepInit ==
  /\ \E nbits \in 1 .. MaxBits : Construct(nbits)
  /\ pdata = reset(<<>>)
  /\ old = pdata
  /\ other = reset(<<>>)
  /\ text = <<>>
  /\ detail = TRUE

\* Single-bit writes and shifts below the bit count, recorded, from reset().
ShiftStepNext == SetPosition \/ ShiftLeftAssign \/ ShiftRightAssign

ShiftStepSpec == ShiftStepInit /\ [][ShiftStepNext]_vars

---------------------------------------------------------------------------
(* Properties. *)

\* The positions of a storage that test() reports set.
SetPositions(d) == {p \in Positions : test(d, p)}

\* The bits of the last element at positions NBITS and above.
PaddingOf(d) == BitAnd(d[SIZE - 1], BitNot(TOP_MASK))

\* The smallest position of at least k that is in the state, or npos.
FirstFrom(d, state, k) ==
  LET found == {p \in k .. NBITS - 1 : test(d, p) = state}
  IN  IF found = {} THEN npos
      ELSE CHOOSE p \in found : \A q \in found : p <= q

\* C1: after any sequence of set(), set(position, value), reset(),
\* reset(position), flip(), flip(position), <<= and >>= with valid positions and
\* shifts below the bit count, every bit of the last storage element at a
\* position of NBITS or more is 0.
C1_PaddingClear == Padded(pdata)

\* C2: on a storage with clear padding, find_next(state, k) with k < NBITS
\* returns the smallest position p >= k with test(p) = state, and npos exactly
\* when there is none.
C2_FindNextSmallest ==
  (op = "find_next" /\ Padded(pdata)) => ret = FirstFrom(pdata, val, arg)

\* C3 as claimed: set(text) clears the bitset and then reads min(NBITS, length)
\* characters from the right end of the text: the rightmost character decides
\* bit 0, the one to its left bit 1, and so on; a bit is set iff its character
\* is '1', and every bit without a character is 0.
C3_TextFromRight ==
  op = "set_text" =>
    /\ \A p \in Positions :
         test(pdata, p) = (p < Len(text) /\ text[Len(text) - p] = "1")
    /\ PaddingOf(pdata) = 0

\* C3, amended: set(text) clears the bitset and then reads the first
\* m = min(NBITS, length) characters of the text: character m (from 1) decides
\* bit 0, character m - 1 bit 1, ..., the first character bit m - 1; a bit is
\* set iff its character is '1', and every bit without a character is 0.
C3_TextFromLeft ==
  op = "set_text" =>
    LET m == Min(NBITS, Len(text))
    IN  /\ \A p \in Positions : test(pdata, p) = (p < m /\ text[m - p] = "1")
        /\ PaddingOf(pdata) = 0

\* A multi-element bitset set from a longer text whose last character read and
\* last character differ, with a character that is neither '0' nor '1' read.
C3_Witness ==
  /\ op = "set_text"
  /\ SIZE > 1
  /\ Len(text) > NBITS
  /\ text[NBITS] = "1"
  /\ text[Len(text)] = "0"
  /\ text[1] = "x"
  /\ test(pdata, 0)
  /\ ~test(pdata, NBITS - 1)

\* C4: in every state the public mutators reach, count() is the number of
\* positions p < NBITS with test(p) true.
C4_CountMatchesTest == count(pdata) = Cardinality(SetPositions(pdata))

\* C5: operator<<= with a shift of NBITS or more touches nothing outside the
\* storage and leaves the bitset all-zero: none() is true and count() is 0.
C5_ShiftPastWidthClears ==
  (op = "shift_left" /\ arg >= NBITS) =>
    /\ ~fault
    /\ none(pdata)
    /\ count(pdata) = 0

\* The mask of the low n bits.
LowBits(n) == 2 ^ n - 1

\* The number of valid bits of the last element of a bitset of nbits bits.
TopBits(nbits) == nbits - BITS_PER_ELEMENT * (ElementCount(nbits) - 1)

\* Bit k of element i of a storage.
StorageBit(d, i, k) == BitOf(d[i], k)

\* The storage bits of a position below NBITS: its element and its bit in it.
BitPlaces == Elements \X (0 .. BITS_PER_ELEMENT - 1)

PlaceOf(position) ==
  <<position \div BITS_PER_ELEMENT, position % BITS_PER_ELEMENT>>

\* C6: the constructor's top mask has exactly the low
\* NBITS - 8 * (SIZE - 1) bits set, all eight when NBITS is a multiple of 8
\* (for every bit count up to MaxMaskBits); so after set(), from any state,
\* all() is true and count() is NBITS, and after reset() none() is true.
C6_TopMask ==
  /\ \A nbits \in 1 .. MaxMaskBits :
       TopMask(nbits, ElementCount(nbits)) = LowBits(TopBits(nbits))
  /\ TOP_MASK = LowBits(TopBits(NBITS))
  /\ op = "set" => (all(pdata) /\ count(pdata) = NBITS)
  /\ op = "reset" => none(pdata)

\* set() on a bitset whose bit count is a multiple of the element width.
C6_Witness ==
  /\ op = "set"
  /\ NBITS = BITS_PER_ELEMENT
  /\ TOP_MASK = ALL_SET
  /\ pdata[0] = ALL_SET

\* C7: after set(position, value) test(position) is value, after
\* reset(position) test(position) is false, and in both cases test(q) is
\* unchanged for every other position q and the padding bits are unchanged.
C7_SingleBitWrite ==
  op \in {"set_position", "reset_position"} =>
    /\ test(pdata, arg) = (op = "set_position" /\ val)
    /\ \A q \in Positions \ {arg} : test(pdata, q) = test(old, q)
    /\ PaddingOf(pdata) = PaddingOf(old)

\* set(position) in the second element of a bitset in which that bit was clear
\* and a bit of each element was set.
C7_Witness ==
  /\ op = "set_position"
  /\ val
  /\ SIZE > 1
  /\ arg >= BITS_PER_ELEMENT
  /\ ~test(old, arg)
  /\ test(pdata, arg)
  /\ old[0] # 0

\* C8: from a state with clear padding, flip() followed by flip() leaves every
\* storage element as it was, and so does flip(position) followed by
\* flip(position) for a position below NBITS.
C8_DoubleFlip ==
  [][ /\ (op = "flip" /\ op' = "flip" /\ Padded(old)) => pdata' = old
      /\ (/\ op = "flip_position" /\ op' = "flip_position"
          /\ arg' = arg /\ arg < NBITS /\ Padded(old)) => pdata' = old ]_vars

\* A multi-element bitset, neither empty nor full, that flip() has just inverted
\* and that one more flip() takes back.
C8_Witness ==
  /\ op = "flip"
  /\ SIZE > 1
  /\ Padded(old)
  /\ old # pdata
  /\ flip(pdata) = old
  /\ SetPositions(old) = Positions \ SetPositions(pdata)
  /\ SetPositions(old) # {}
  /\ SetPositions(pdata) # {}

\* C9: flip(position) with a position of NBITS or more changes no storage
\* element and touches nothing outside the storage; with a position below
\* NBITS it toggles exactly that one bit of the storage.
C9_FlipPosition ==
  op = "flip_position" =>
    /\ ~fault
    /\ arg >= NBITS => pdata = old
    /\ arg < NBITS =>
         \A pl \in BitPlaces :
           (StorageBit(pdata, pl[1], pl[2]) # StorageBit(old, pl[1], pl[2]))
             <=> (pl = PlaceOf(arg))

\* flip(position) on a position beyond the storage of a non-empty bitset.
C9_Witness ==
  /\ op = "flip_position"
  /\ arg >= SIZE * BITS_PER_ELEMENT
  /\ pdata = old
  /\ pdata[SIZE - 1] # 0

\* C10: after A &= B (A |= B, A ^= B) on two bitsets with clear padding, every
\* position p < NBITS has test_A(p) equal to the old test_A(p) AND (OR, XOR)
\* test_B(p), B is unchanged and the padding of A is still clear.
C10_BitwiseCombine ==
  [][ op' \in {"and", "or", "xor"} =>
        /\ other' = other
        /\ Padded(pdata')
        /\ \A p \in Positions :
             test(pdata', p) =
               CASE op' = "and" -> test(pdata, p) /\ test(other, p)
                 [] op' = "or"  -> test(pdata, p) \/ test(other, p)
                 [] op' = "xor" -> test(pdata, p) # test(other, p) ]_vars

\* The example of the claim: A = 1100 and B = 1010 give A &= B = 1000.
C10_Witness ==
  /\ op = "and"
  /\ NBITS = 4
  /\ SetPositions(old) = {2, 3}
  /\ SetPositions(other) = {1, 3}
  /\ SetPositions(pdata) = {3}

\* C11: in every state the public mutators reach and for every shift s below
\* NBITS, after operator<<=(s) each position p < NBITS has
\* test(p) = (p >= s and old test(p - s)), and after operator>>=(s) each has
\* test(p) = (p + s < NBITS and old test(p + s)): the s vacated positions are
\* clear.
C11_ShiftResult ==
  /\ op = "shift_left" =>
       \A p \in Positions : test(pdata, p) = (p >= arg /\ test(old, p - arg))
  /\ op = "shift_right" =>
       \A p \in Positions : test(pdata, p) = (p + arg < NBITS /\ test(old, p + arg))

====
